---- MODULE Spec2Model ----
(***************************************************************************)
(* Model of the Turing-machine engine of TC.py (class TuringMachine):      *)
(* load_tape, step, run and get_tape_content over a growable tape.         *)
(*                                                                         *)
(* A Python string is a sequence of one-character strings; the tape is a   *)
(* Python list of one-character strings.  Python indices are zero-based,   *)
(* TLA+ sequences one-based: cell i of the list is tape[i + 1].            *)
(***************************************************************************)
EXTENDS Integers, Sequences, FiniteSets, TLC

\* ------------------------------------------------------------------------
\* Bounds of the model
\* ------------------------------------------------------------------------
\* largest number of rules in a transition table
MaxRules == 1
\* longest input string given to load_tape
MaxInput == 1
\* longest tape: a call is made only when the tape it leaves is no longer
MaxTape == 5
\* largest max_steps given to run (the smallest is -1)
MaxSteps == 2
\* longest message given to the Caesar functions
MaxMessage == 2
\* largest shift given to the Caesar functions (the smallest is -MaxShift)
MaxShift == 27

\* ------------------------------------------------------------------------
\* The values a specification is built from
\* ------------------------------------------------------------------------
Blank == "_"
States == {"q0", "q1"}
Symbols == {"A", Blank}
Directions == {"L", "R"}
initial_state == "q0"

Keys == States \X Symbols
Rules == States \X Symbols \X Directions

\* every transition table with at most MaxRules entries: a function from
\* (state, symbol) to (new_state, write_symbol, direction)
Tables == UNION {[D -> Rules] : D \in {K \in SUBSET Keys : Cardinality(K) <= MaxRules}}

Inputs == UNION {[1..n -> Symbols] : n \in 0..MaxInput}
StepBudgets == (-1)..MaxSteps

VARIABLES
  transitions,     \* self.transitions
  accept_states,   \* self.accept_states
  tape,            \* self.tape
  head_position,   \* self.head_position
  current_state,   \* self.current_state
  pc,              \* "idle": no call in progress; "run": inside run's loop
  steps,           \* run's local counter of performed transitions
  max_steps,       \* run's argument
  calls,           \* number of step() invocations made by the current run
  last,            \* the latest call, what it found and what it returned
  halt,            \* why the machine stopped: "none" while it has not
  loaded,          \* load_tape has been called on this instance
  fault,           \* a list access was out of range (IndexError)
  twin,            \* a second instance built from the same specification
  trace,           \* observer: the input loaded and the transitions since
  chain,           \* observer: where a series of run() calls started
  cipher           \* the arguments and results of the Caesar functions

vars == <<transitions, accept_states, tape, head_position, current_state, pc,
          steps, max_steps, calls, last, halt, loaded, fault, twin,
          trace, chain, cipher>>

\* the fields of one TuringMachine instance and the bookkeeping of its calls
machine_vars == <<transitions, accept_states, tape, head_position, current_state,
                  pc, steps, max_steps, calls, last, halt, loaded, fault, twin>>
\* what the observer of a call sequence records
observer_vars == <<trace, chain>>

spec_vars == <<transitions, accept_states>>
machine == [tape |-> tape, head_position |-> head_position,
            current_state |-> current_state]

\* ------------------------------------------------------------------------
\* TuringMachine.__init__ and load_tape
\* ------------------------------------------------------------------------
\* the fields __init__ sets: empty tape, head 0, the initial state
NewMachine == [tape |-> <<>>, head_position |-> 0, current_state |-> initial_state]

\* a load_tape that leaves the head where it was
LoadedMachine_KeepHead(m, input_string) ==
  [tape |-> input_string \o <<Blank>>,
   head_position |-> m.head_position,
   current_state |-> initial_state]

\* a load_tape that leaves the current state as it was
LoadedMachine_KeepState(m, input_string) ==
  [tape |-> input_string \o <<Blank>>,
   head_position |-> 0,
   current_state |-> m.current_state]

\* a load_tape that does not append the blank
LoadedMachine_NoSentinel(m, input_string) ==
  [tape |-> input_string,
   head_position |-> 0,
   current_state |-> initial_state]

\* load_tape: tape = list(input_string) + ['_'], head 0, initial state
LoadedMachine(m, input_string) ==
  [tape |-> input_string \o <<Blank>>,
   head_position |-> 0,
   current_state |-> initial_state]

\* ------------------------------------------------------------------------
\* Python list access
\* ------------------------------------------------------------------------
\* tape[i] raises IndexError unless -len <= i < len
IndexInRange(t, i) == i < Len(t) /\ i >= -Len(t)
\* tape[i]: a negative index counts from the end
ListGet(t, i) == IF i >= 0 THEN t[i + 1] ELSE t[Len(t) + i + 1]
\* an assignment that is lost
ListSet_Ignored(t, i, v) == t

\* tape[i] = v
ListSet(t, i, v) == IF i >= 0 THEN [t EXCEPT ![i + 1] = v]
                    ELSE [t EXCEPT ![Len(t) + i + 1] = v]

\* a step() without the padding loop
PadRight_Missing(t, head) == t

\* a padding loop that appends one blank too many
PadRight_Extra(t, head) ==
  IF head >= Len(t) THEN t \o [i \in 1..(head - Len(t) + 2) |-> Blank] ELSE t

\* while self.head_position >= len(self.tape): self.tape.append('_')
RECURSIVE PadRight(_, _)
PadRight(t, head) == IF head >= Len(t) THEN PadRight(Append(t, Blank), head) ELSE t

\* ------------------------------------------------------------------------
\* TuringMachine.step
\* ------------------------------------------------------------------------
\* an accept check that never finds an accept state
IsAccepting_Never(m) == FALSE

\* if self.current_state in self.accept_states
IsAccepting(m) == m.current_state \in accept_states

\* a move that skips a cell to the right
MoveHead_SkipRight(head, direction) ==
  IF direction = "R" THEN head + 2
  ELSE IF direction = "L" THEN head - 1
  ELSE head

\* a move in the opposite direction
MoveHead_Reversed(head, direction) ==
  IF direction = "R" THEN head - 1
  ELSE IF direction = "L" THEN head + 1
  ELSE head

\* the head after "if direction == 'R' ... elif direction == 'L' ..."
MoveHead(head, direction) ==
  IF direction = "R" THEN head + 1
  ELSE IF direction = "L" THEN head - 1
  ELSE head

\* a repair that appends the blank at the right end
RepairLeft_Append(t, head) ==
  IF head < 0 THEN [tape |-> t \o <<Blank>>, head_position |-> 0]
  ELSE [tape |-> t, head_position |-> head]

\* a repair that resets the head and inserts nothing
RepairLeft_NoInsert(t, head) ==
  IF head < 0 THEN [tape |-> t, head_position |-> 0]
  ELSE [tape |-> t, head_position |-> head]

\* if self.head_position < 0: self.tape.insert(0, '_'); self.head_position = 0
RepairLeft(t, head) ==
  IF head < 0 THEN [tape |-> <<Blank>> \o t, head_position |-> 0]
  ELSE [tape |-> t, head_position |-> head]

\* step() from the padding loop on (the state is not an accept state): the
\* machine afterwards, the value returned and whether a list access raised
Transition(m) ==
  LET padded == PadRight(m.tape, m.head_position)
      m1 == [m EXCEPT !.tape = padded]
  IN IF ~IndexInRange(padded, m.head_position)
     THEN [m |-> m1, ret |-> FALSE, fault |-> TRUE]
     ELSE
       LET current_symbol == ListGet(padded, m.head_position)
           transition_key == <<m.current_state, current_symbol>>
       IN IF transition_key \notin DOMAIN transitions
          THEN [m |-> m1, ret |-> FALSE, fault |-> FALSE]
          ELSE
            LET rule == transitions[transition_key]
                new_state == rule[1]
                write_symbol == rule[2]
                direction == rule[3]
                written == ListSet(padded, m.head_position, write_symbol)
                repaired == RepairLeft(written, MoveHead(m.head_position, direction))
            IN [m |-> [tape |-> repaired.tape,
                       head_position |-> repaired.head_position,
                       current_state |-> new_state],
                ret |-> TRUE, fault |-> FALSE]

\* a step() that applies the rule first and looks at the accept states after
StepOf_AcceptCheckedLast(m) ==
  LET t == Transition(m)
  IN IF t.ret /\ IsAccepting(t.m) THEN [t EXCEPT !.ret = FALSE] ELSE t

\* a step() without the accept check
StepOf_NoAcceptCheck(m) == Transition(m)

\* a step() that pads the tape before it looks at the accept states
StepOf_PadFirst(m) ==
  IF IsAccepting(m)
  THEN [m |-> [m EXCEPT !.tape = PadRight(m.tape, m.head_position)],
        ret |-> FALSE, fault |-> FALSE]
  ELSE Transition(m)

\* The machine after one call of step() on m, the value returned and
\* whether a list access raised.
StepOf(m) ==
  IF IsAccepting(m)
  THEN [m |-> m, ret |-> FALSE, fault |-> FALSE]
  ELSE Transition(m)

\* ------------------------------------------------------------------------
\* ''.join(self.tape).rstrip('_')
\* ------------------------------------------------------------------------
\* ''.join of a list of one-character strings: the string of its characters
Join(t) == [i \in 1..Len(t) |-> t[i]]

\* str.rstrip('_'): drop the blanks at the right end
RECURSIVE RStrip(_)
RStrip(s) == IF s # <<>> /\ s[Len(s)] = Blank
             THEN RStrip(SubSeq(s, 1, Len(s) - 1))
             ELSE s

\* str.strip('_'): drop the blanks at both ends
RECURSIVE LStrip(_)
LStrip(s) == IF s # <<>> /\ s[1] = Blank THEN LStrip(Tail(s)) ELSE s

\* a get_tape_content that strips both ends
TapeContent_StripBoth(t) == LStrip(RStrip(Join(t)))

\* get_tape_content(): line 74
TapeContent(t) == RStrip(Join(t))

\* a result that keeps the trailing blanks
RunResult_NoStrip(t) == Join(t)

\* the string run returns: lines 69-70
RunResult(t) == RStrip(Join(t))

\* ------------------------------------------------------------------------
\* run(max_steps) as one call: the loop of lines 65-67 and the result
\* ------------------------------------------------------------------------
\* a loop condition that lets one step too many through
LoopGuard_Inclusive(n, budget) == n <= budget

\* a loop condition that stops one step early
LoopGuard_Early(n, budget) == n + 1 < budget

\* the loop condition of run: steps < max_steps
LoopGuard(n, budget) == n < budget

\* a loop that forgets to count
Counted_Stuck(n) == n

\* steps += 1
Counted(n) == n + 1

\* while steps < max_steps and self.step(): steps += 1
RECURSIVE RunLoop(_, _, _)
RunLoop(m, n, budget) ==
  IF LoopGuard(n, budget)
  THEN LET s == StepOf(m)
       IN IF s.ret THEN RunLoop(s.m, n + 1, budget)
          ELSE [m |-> s.m, steps |-> n]
  ELSE [m |-> m, steps |-> n]

FieldsOf(t) == [tape |-> t.tape, head_position |-> t.head_position,
                current_state |-> t.current_state]

\* the second instance: its fields, the transitions its latest run performed
\* and the string that run returned
TwinOf(m) == [tape |-> m.tape, head_position |-> m.head_position,
              current_state |-> m.current_state, steps |-> 0, result |-> <<>>]

TwinStep(t) == TwinOf(StepOf(FieldsOf(t)).m)

TwinRun(t, budget) ==
  LET r == RunLoop(FieldsOf(t), 0, budget)
  IN [tape |-> r.m.tape, head_position |-> r.m.head_position,
      current_state |-> r.m.current_state,
      steps |-> r.steps, result |-> RunResult(r.m.tape)]

\* ------------------------------------------------------------------------
\* What the calls leave behind for observation
\* ------------------------------------------------------------------------
\* the reason a step() that returned False stopped
StopReason(m) == IF m.current_state \in accept_states THEN "accept" ELSE "undefined"

\* the halt status after a call that performed no transition and stopped
\* for reason why: a machine that had stopped before keeps its first reason
Stopped(why) == IF halt = "none" THEN why ELSE halt

Running == "none"

\* op: the call; before: what it found (load_tape and run: the halt status,
\* step: where the head was); ret: what the latest step() returned;
\* result: the string returned
NoCall == [op |-> "init", input |-> <<>>, budget |-> 0, ret |-> FALSE,
           result |-> <<>>, before |-> "none"]

\* the observer before any call: nothing loaded, no successful step() yet
NoTrace == [input |-> <<>>, moves |-> 0]

\* the observer outside a series of run() calls
NoChain == [start |-> NewMachine, total |-> 0, runs |-> 0]

\* the Caesar functions have not been called
NoCipher == [message |-> <<>>, shift |-> 0, encrypted |-> <<>>,
             decrypted |-> <<>>, done |-> "none"]

\* where the head is when step() is called
HeadPlace == IF head_position >= Len(tape) THEN "past_end"
             ELSE IF head_position = 0 THEN "first_cell"
             ELSE "inside"

\* ------------------------------------------------------------------------
\* caesar_encrypt and caesar_decrypt
\* ------------------------------------------------------------------------
\* alphabet = 'ABCDEFGHIJKLMNOPQRSTUVWXYZ'
alphabet == <<"A", "B", "C", "D", "E", "F", "G", "H", "I", "J", "K", "L", "M",
              "N", "O", "P", "Q", "R", "S", "T", "U", "V", "W", "X", "Y", "Z">>

\* char in alphabet, for a string of one character
InAlphabet(char) == \E i \in 1..Len(alphabet) : alphabet[i] = char

\* alphabet.index(char): the zero-based position of char
AlphabetIndex(char) == (CHOOSE i \in 1..Len(alphabet) : alphabet[i] = char) - 1

\* alphabet[new_pos], new_pos zero-based
AlphabetAt(new_pos) == alphabet[new_pos + 1]

\* the body of caesar_encrypt's loop: what is appended for char
EncryptChar(char, shift) ==
  IF char = " " THEN " "
  ELSE IF InAlphabet(char)
       THEN LET pos == AlphabetIndex(char)
                new_pos == (pos + shift) % 26
            IN AlphabetAt(new_pos)
       ELSE char

\* the body of caesar_decrypt's loop: what is appended for char
DecryptChar(char, shift) ==
  IF char = " " THEN " "
  ELSE IF InAlphabet(char)
       THEN LET pos == AlphabetIndex(char)
                new_pos == (pos - shift) % 26
            IN AlphabetAt(new_pos)
       ELSE char

caesar_encrypt(message, shift) ==
  [i \in 1..Len(message) |-> EncryptChar(message[i], shift)]

\* a caesar_decrypt that shifts forward like caesar_encrypt
caesar_decrypt_Forward(message, shift) ==
  [i \in 1..Len(message) |-> EncryptChar(message[i], shift)]

caesar_decrypt(message, shift) ==
  [i \in 1..Len(message) |-> DecryptChar(message[i], shift)]

\* the characters messages are made of: letters of A-Z from both ends and
\* the middle of the alphabet, a space, a lowercase letter, a digit and a
\* punctuation mark
Characters == {"A", "N", "Z", " ", "a", "7", "!"}
Messages == UNION {[1..n -> Characters] : n \in 0..MaxMessage}
Shifts == (-MaxShift)..MaxShift

\* ------------------------------------------------------------------------
\* Initial states: a freshly constructed machine for every specification
\* ------------------------------------------------------------------------
Init ==
  /\ transitions \in Tables
  /\ accept_states \in SUBSET States
  /\ tape = NewMachine.tape
  /\ head_position = NewMachine.head_position
  /\ current_state = NewMachine.current_state
  /\ pc = "idle"
  /\ steps = 0
  /\ max_steps = 0
  /\ calls = 0
  /\ last = NoCall
  /\ halt = Running
  /\ loaded = FALSE
  /\ fault = FALSE
  /\ twin = TwinOf(NewMachine)
  /\ trace = NoTrace
  /\ chain = NoChain
  /\ cipher = NoCipher

\* ------------------------------------------------------------------------
\* Operations
\* ------------------------------------------------------------------------
\* load_tape(input_string); the twin is a newly constructed machine given
\* the same input
LoadTape(input_string) ==
  /\ pc = "idle"
  /\ ~fault
  /\ LET m == LoadedMachine(machine, input_string)
     IN /\ tape' = m.tape
        /\ head_position' = m.head_position
        /\ current_state' = m.current_state
  /\ twin' = TwinOf(LoadedMachine(NewMachine, input_string))
  /\ last' = [NoCall EXCEPT !.op = "load_tape", !.input = input_string,
                            !.before = IF last.op = "init" THEN "new"
                                       ELSE IF halt = "none" THEN "running"
                                       ELSE halt]
  /\ halt' = Running
  /\ loaded' = TRUE
  /\ steps' = 0 /\ max_steps' = 0 /\ calls' = 0
  /\ UNCHANGED <<spec_vars, pc, fault>>

\* a direct call of step(); the twin receives the same call
Step ==
  /\ pc = "idle"
  /\ ~fault
  /\ Len(StepOf(machine).m.tape) <= MaxTape
  /\ LET s == StepOf(machine)
     IN /\ tape' = s.m.tape
        /\ head_position' = s.m.head_position
        /\ current_state' = s.m.current_state
        /\ fault' = s.fault
        /\ last' = [NoCall EXCEPT !.op = "step", !.ret = s.ret, !.before = HeadPlace]
        /\ halt' = IF s.ret THEN Running ELSE Stopped(StopReason(machine))
  /\ twin' = TwinStep(twin)
  /\ steps' = 0 /\ max_steps' = 0 /\ calls' = 0
  /\ UNCHANGED <<spec_vars, pc, loaded>>

\* run(budget) is entered: steps = 0; the twin performs the whole call
RunCall(budget) ==
  /\ pc = "idle"
  /\ ~fault
  /\ Len(RunLoop(machine, 0, budget).m.tape) <= MaxTape
  /\ pc' = "run"
  /\ steps' = 0
  /\ calls' = 0
  /\ max_steps' = budget
  /\ last' = [NoCall EXCEPT !.op = "run", !.budget = budget, !.before = halt]
  /\ twin' = TwinRun(twin, budget)
  /\ UNCHANGED <<spec_vars, tape, head_position, current_state, halt, loaded, fault>>

\* one iteration of run's loop: the condition holds and step() returned True
RunIterate ==
  /\ pc = "run"
  /\ ~fault
  /\ LoopGuard(steps, max_steps)
  /\ LET s == StepOf(machine)
     IN /\ s.ret
        /\ Len(s.m.tape) <= MaxTape
        /\ tape' = s.m.tape
        /\ head_position' = s.m.head_position
        /\ current_state' = s.m.current_state
        /\ fault' = s.fault
  /\ steps' = Counted(steps)
  /\ calls' = calls + 1
  /\ last' = [last EXCEPT !.ret = TRUE]
  /\ halt' = Running
  /\ UNCHANGED <<spec_vars, pc, max_steps, loaded, twin>>

\* the loop of run ends (budget used up, or step() returned False) and run
\* returns ''.join(self.tape).rstrip('_')
RunExit ==
  /\ pc = "run"
  /\ ~fault
  /\ IF LoopGuard(steps, max_steps)
     THEN LET s == StepOf(machine)
          IN /\ ~s.ret
             /\ tape' = s.m.tape
             /\ head_position' = s.m.head_position
             /\ current_state' = s.m.current_state
             /\ fault' = s.fault
             /\ calls' = calls + 1
             /\ last' = [last EXCEPT !.ret = FALSE, !.result = RunResult(s.m.tape)]
             /\ halt' = Stopped(StopReason(machine))
     ELSE /\ UNCHANGED <<tape, head_position, current_state, fault, calls>>
          /\ last' = [last EXCEPT !.result = RunResult(tape)]
          /\ halt' = Stopped("budget")
  /\ pc' = "idle"
  /\ UNCHANGED <<spec_vars, steps, max_steps, loaded, twin>>

\* get_tape_content()
GetTapeContent ==
  /\ pc = "idle"
  /\ ~fault
  /\ last.op # "get_tape_content"
  /\ last' = [NoCall EXCEPT !.op = "get_tape_content", !.result = TapeContent(tape)]
  /\ twin' = TwinOf(twin)
  /\ steps' = 0 /\ max_steps' = 0 /\ calls' = 0
  /\ UNCHANGED <<spec_vars, tape, head_position, current_state, pc, halt,
                 loaded, fault>>

\* the calls of a client that is not observed
Next ==
  \/ \E input_string \in Inputs :
        LoadTape(input_string) /\ UNCHANGED <<observer_vars, cipher>>
  \/ Step /\ UNCHANGED <<observer_vars, cipher>>
  \/ \E budget \in StepBudgets :
        RunCall(budget) /\ UNCHANGED <<observer_vars, cipher>>
  \/ RunIterate /\ UNCHANGED <<observer_vars, cipher>>
  \/ RunExit /\ UNCHANGED <<observer_vars, cipher>>
  \/ GetTapeContent /\ UNCHANGED <<observer_vars, cipher>>

Spec == Init /\ [][Next]_vars

\* A client that only loads tapes and calls run.  run is a sequential loop:
\* once entered, its iterations and its exit are always taken.
RunNext ==
  \/ \E input_string \in Inputs :
        LoadTape(input_string) /\ UNCHANGED <<observer_vars, cipher>>
  \/ \E budget \in StepBudgets :
        RunCall(budget) /\ UNCHANGED <<observer_vars, cipher>>
  \/ RunIterate /\ UNCHANGED <<observer_vars, cipher>>
  \/ RunExit /\ UNCHANGED <<observer_vars, cipher>>

FairSpec ==
  /\ Init /\ [][RunNext]_vars
  /\ WF_vars(RunIterate /\ UNCHANGED <<observer_vars, cipher>>)
  /\ WF_vars(RunExit /\ UNCHANGED <<observer_vars, cipher>>)

\* ------------------------------------------------------------------------
\* The same calls, observed: the observer remembers the input of the latest
\* load_tape and counts the step() calls that returned True since, and it
\* remembers the configuration in which a series of two consecutive run()
\* calls started and the sum of their budgets.
\* ------------------------------------------------------------------------
\* most successful step() calls observed after one load_tape
MaxMoves == MaxTape

ObservedLoadTape(input_string) ==
  /\ LoadTape(input_string)
  /\ trace' = [input |-> input_string, moves |-> 0]
  /\ chain' = NoChain
  /\ UNCHANGED cipher

ObservedStep ==
  /\ Step
  /\ trace' = [trace EXCEPT !.moves = IF last'.ret THEN @ + 1 ELSE @]
  /\ trace'.moves <= MaxMoves
  /\ chain' = NoChain
  /\ UNCHANGED cipher

\* a run() with a budget >= 0 that follows the first run() of a series
\* directly is the second of the series; any other run() starts a series
\* or, with a negative budget, none
ObservedRunCall(budget) ==
  /\ RunCall(budget)
  /\ trace.moves + RunLoop(machine, 0, budget).steps <= MaxMoves
  /\ chain' = IF budget < 0 THEN NoChain
              ELSE IF chain.runs = 1
                   THEN [chain EXCEPT !.total = @ + budget, !.runs = @ + 1]
                   ELSE [start |-> machine, total |-> budget, runs |-> 1]
  /\ UNCHANGED <<trace, cipher>>

ObservedRunIterate ==
  /\ RunIterate
  /\ trace' = [trace EXCEPT !.moves = @ + 1]
  /\ UNCHANGED <<chain, cipher>>

ObservedRunExit ==
  /\ RunExit
  /\ UNCHANGED <<observer_vars, cipher>>

ObservedGetTapeContent ==
  /\ GetTapeContent
  /\ chain' = NoChain
  /\ UNCHANGED <<trace, cipher>>

TraceNext ==
  \/ \E input_string \in Inputs : ObservedLoadTape(input_string)
  \/ ObservedStep
  \/ \E budget \in StepBudgets : ObservedRunCall(budget)
  \/ ObservedRunIterate
  \/ ObservedRunExit
  \/ ObservedGetTapeContent

TraceSpec == Init /\ [][TraceNext]_vars

\* ------------------------------------------------------------------------
\* The Caesar functions, called on every message and shift: encrypt the
\* message, then decrypt what came out with the same shift.  They do not
\* use the engine; the machine stays as constructed.
\* ------------------------------------------------------------------------
CipherInit ==
  /\ transitions \in {T \in Tables : DOMAIN T = {}}
  /\ accept_states = {}
  /\ tape = NewMachine.tape
  /\ head_position = NewMachine.head_position
  /\ current_state = NewMachine.current_state
  /\ pc = "idle"
  /\ steps = 0
  /\ max_steps = 0
  /\ calls = 0
  /\ last = NoCall
  /\ halt = Running
  /\ loaded = FALSE
  /\ fault = FALSE
  /\ twin = TwinOf(NewMachine)
  /\ trace = NoTrace
  /\ chain = NoChain
  /\ \E message \in Messages, shift \in Shifts :
        cipher = [NoCipher EXCEPT !.message = message, !.shift = shift]

\* encrypted = caesar_encrypt(message, shift)
Encrypt ==
  /\ cipher.done = "none"
  /\ cipher' = [cipher EXCEPT !.encrypted = caesar_encrypt(cipher.message, cipher.shift),
                              !.done = "encrypt"]
  /\ UNCHANGED <<machine_vars, observer_vars>>

\* decrypted = caesar_decrypt(encrypted, shift)
Decrypt ==
  /\ cipher.done = "encrypt"
  /\ cipher' = [cipher EXCEPT !.decrypted = caesar_decrypt(cipher.encrypted, cipher.shift),
                              !.done = "decrypt"]
  /\ UNCHANGED <<machine_vars, observer_vars>>

CipherNext == Encrypt \/ Decrypt

CipherSpec == CipherInit /\ [][CipherNext]_vars

\* ------------------------------------------------------------------------
\* Vocabulary of the properties
\* ------------------------------------------------------------------------
\* the actions in which step() is invoked, directly or by run's loop
StepInvoked == Step \/ RunIterate \/ (RunExit /\ steps < max_steps)

\* the symbol step() would read: the cell under the head, a blank when the
\* head is at or past the tape end
SymbolUnderHead == IF head_position < Len(tape) THEN tape[head_position + 1]
                   ELSE Blank

RuleDefined == <<current_state, SymbolUnderHead>> \in DOMAIN transitions

\* a state in which a step() call has just ended
AfterStepCall == last.op = "step" \/ (last.op = "run" /\ calls > 0)

config == <<tape, head_position, current_state>>

\* r is t without its trailing blanks: a prefix of t that does not end in a
\* blank and is followed by blanks only
IsRightStripped(r, t) ==
  /\ Len(r) <= Len(t)
  /\ \A i \in 1..Len(r) : r[i] = t[i]
  /\ \A i \in (Len(r) + 1)..Len(t) : t[i] = Blank
  /\ (Len(r) > 0 => r[Len(r)] # Blank)

\* ------------------------------------------------------------------------
\* C1: step() returns False exactly when the current state is an accept
\* state or the table has no entry for (current state, symbol under the
\* head, a blank past the tape end); otherwise it returns True.
\* ------------------------------------------------------------------------
C1_HaltingCorrectness ==
  [][StepInvoked =>
       (last'.ret = FALSE <=> (current_state \in accept_states \/ ~RuleDefined))]_vars

\* a direct step() stopped on an undefined transition in a non-accept state
C1_Witness ==
  /\ last.op = "step" /\ last.ret = FALSE
  /\ loaded /\ current_state \notin accept_states
  /\ halt = "undefined"

\* ------------------------------------------------------------------------
\* C2 as stated: after load_tape, at the end of every step() call the head
\* satisfies 0 <= head < length(tape).
\* ------------------------------------------------------------------------
C2_HeadInsideTape ==
  (loaded /\ AfterStepCall) => (0 <= head_position /\ head_position < Len(tape))

\* C2 amended: after load_tape, at the end of every step() call the head
\* satisfies 0 <= head <= length(tape); head = length(tape) is left by a step
\* that moved right from the last cell, and lasts until a step() in a
\* non-accept state reads the tape.
C2_HeadInsideOrAtEnd ==
  (loaded /\ AfterStepCall) =>
     /\ 0 <= head_position
     /\ head_position <= Len(tape)
     /\ (head_position = Len(tape) => (last.ret = TRUE \/ current_state \in accept_states))

\* a step() has moved the head right from the last cell of a loaded tape
C2_Witness ==
  /\ loaded /\ last.op = "step" /\ last.ret = TRUE
  /\ head_position = Len(tape)

\* ------------------------------------------------------------------------
\* C3 as stated: once the machine has stopped by acceptance, by an undefined
\* transition or by run using up its budget, no later step() or run()
\* performs a transition until load_tape is called.  Stated here for a
\* loaded machine in its weakest reading: the next step() call, direct or
\* made by run(), does not return True (for a stop by budget: the call that
\* follows a run that performed at least one transition).
\* ------------------------------------------------------------------------
C3_AllHaltsTerminal ==
  [][(/\ loaded
      /\ halt # "none"
      /\ (halt = "budget" => (last.op = "run" /\ pc = "idle" /\ steps > 0))
      /\ last'.op # "load_tape") => last'.ret = FALSE]_vars

\* C3 amended: once the machine has stopped by acceptance or by an undefined
\* transition, no later step() or run() performs a transition until
\* load_tape is called; a machine that run() left because the budget was
\* used up is continued by the next step() or run().
C3_AcceptAndUndefinedTerminal ==
  [][(halt \in {"accept", "undefined"} /\ last'.op # "load_tape") =>
       (config' = config /\ last'.ret = FALSE /\ halt' = halt)]_vars

\* a machine that had stopped on an undefined transition was called again
\* by run() and performed no transition
C3_Witness ==
  /\ halt = "undefined" /\ last.before = "undefined"
  /\ last.op = "run" /\ pc = "idle" /\ max_steps > 0
  /\ calls > 0 /\ steps = 0 /\ RuleDefined = FALSE

\* ------------------------------------------------------------------------
\* C4: run(n) invokes step() at most n times (not at all when n <= 0), and
\* performs at most n transitions.
\* ------------------------------------------------------------------------
C4_StepBound ==
  last.op = "run" =>
     /\ calls <= (IF max_steps > 0 THEN max_steps ELSE 0)
     /\ steps <= calls
     /\ steps <= (IF max_steps > 0 THEN max_steps ELSE 0)

\* a run has returned after using its whole budget
C4_Witness ==
  /\ last.op = "run" /\ pc = "idle"
  /\ max_steps > 1 /\ calls = max_steps /\ steps = max_steps

\* ------------------------------------------------------------------------
\* C5: run(max_steps) terminates for every transition table: the loop
\* always reaches its exit.
\* ------------------------------------------------------------------------
C5_RunTerminates == (pc = "run") ~> (pc = "idle")

\* run has returned by using up its budget on a machine that could go on
C5_Witness ==
  /\ last.op = "run" /\ pc = "idle"
  /\ max_steps > 1 /\ steps = max_steps
  /\ current_state \notin accept_states /\ RuleDefined

\* ------------------------------------------------------------------------
\* C6: two instances built from the same specification, given the same
\* input and the same run(max_steps), end with the same tape, head, current
\* state, number of performed transitions and returned string.
\* ------------------------------------------------------------------------
C6_Determinism ==
  (loaded /\ pc = "idle" /\ last.op = "run") =>
     /\ twin.tape = tape
     /\ twin.head_position = head_position
     /\ twin.current_state = current_state
     /\ twin.steps = steps
     /\ twin.result = last.result

\* both instances have run and performed transitions that changed the tape
C6_Witness ==
  /\ loaded /\ pc = "idle" /\ last.op = "run"
  /\ steps > 1 /\ twin.steps = steps
  /\ Len(tape) > MaxInput + 1

\* ------------------------------------------------------------------------
\* C7 as stated: a step() that applies a rule with direction L while the
\* head is at index 0 inserts one blank at the front, leaves the head at 0,
\* makes the tape one cell longer and shifts every symbol (the written one
\* in place of the old cell 0) one position to the right.
\* ------------------------------------------------------------------------
LeftAtZero ==
  /\ StepInvoked
  /\ head_position = 0
  /\ current_state \notin accept_states
  /\ RuleDefined
  /\ transitions[<<current_state, SymbolUnderHead>>][3] = "L"

WriteSymbol == transitions[<<current_state, SymbolUnderHead>>][2]

C7_LeftGrowth ==
  [][LeftAtZero =>
       /\ Len(tape') = Len(tape) + 1
       /\ head_position' = 0
       /\ tape'[1] = Blank
       /\ tape'[2] = WriteSymbol
       /\ \A i \in 2..Len(tape) : tape'[i + 1] = tape[i]]_vars

\* C7 amended: the same, for a tape that is not empty (every tape after
\* load_tape or after an earlier step()); on a newly constructed machine,
\* whose tape is empty, the step first appends the blank it reads, so the
\* tape grows by two cells to ['_', write_symbol].
C7_LeftGrowthNonEmpty ==
  [][LeftAtZero =>
       /\ head_position' = 0
       /\ tape'[1] = Blank
       /\ tape'[2] = WriteSymbol
       /\ IF Len(tape) > 0
          THEN /\ Len(tape') = Len(tape) + 1
               /\ \A i \in 2..Len(tape) : tape'[i + 1] = tape[i]
          ELSE Len(tape') = 2]_vars

\* a step() has just moved left from index 0 of a loaded tape that holds a
\* symbol: the tape starts with the inserted blank and the symbol follows
C7_Witness ==
  /\ loaded /\ last.op = "step" /\ last.ret = TRUE
  /\ last.before = "first_cell" /\ head_position = 0
  /\ Len(tape) > 2
  /\ tape[1] = Blank /\ tape[2] = "A"

\* ------------------------------------------------------------------------
\* C8: load_tape(input) in any reachable configuration sets the tape to the
\* characters of input followed by one blank, the head to 0 and the current
\* state to the initial state, so that the machine goes on exactly like a
\* newly constructed machine given the same input.
\* ------------------------------------------------------------------------
C8_LoadResets ==
  /\ last.op = "load_tape" =>
        /\ tape = last.input \o <<Blank>>
        /\ head_position = 0
        /\ current_state = initial_state
  /\ (loaded /\ pc = "idle") =>
        /\ twin.tape = tape
        /\ twin.head_position = head_position
        /\ twin.current_state = current_state

\* load_tape has put a non-empty input on a machine that a run had left
\* with its budget used up
C8_Witness ==
  /\ last.op = "load_tape" /\ last.before = "budget"
  /\ last.input # <<>>

\* ------------------------------------------------------------------------
\* C9: whatever stops run(), the string it returns is the tape without its
\* trailing blanks, leading blanks kept, and equals what get_tape_content()
\* returns right after; neither changes the tape, the head or the state.
\* ------------------------------------------------------------------------
C9_RunReturnsContent ==
  [][/\ RunExit => /\ IsRightStripped(last'.result, tape')
                   /\ last'.result = TapeContent(tape')
                   /\ (~(steps < max_steps) => config' = config)
     /\ GetTapeContent => /\ IsRightStripped(last'.result, tape)
                          /\ (last.op = "run" => last'.result = last.result)
                          /\ config' = config]_vars

\* run has returned a string that starts with a blank and is shorter than
\* the tape
C9_Witness ==
  /\ last.op = "run" /\ pc = "idle" /\ steps > 0
  /\ Len(last.result) > 1 /\ last.result[1] = Blank
  /\ Len(last.result) < Len(tape)

\* ------------------------------------------------------------------------
\* C10: no call raises: step() and run() complete without an out-of-range
\* list access in every reachable configuration, also on a machine that
\* was never loaded and with the head at the tape end or moving left of 0.
\* ------------------------------------------------------------------------
C10_NoFault == fault = FALSE

\* a machine that was never loaded has read past the end of its tape and
\* moved left to index 0 without a fault
C10_Witness ==
  /\ ~loaded /\ last.op = "step" /\ last.ret = TRUE /\ ~fault
  /\ last.before = "past_end" /\ head_position = 0 /\ Len(tape) = 2

\* ------------------------------------------------------------------------
\* Vocabulary of the observed call sequences
\* ------------------------------------------------------------------------
\* w contains no blank symbol
BlankFree(w) == \A i \in 1..Len(w) : w[i] # Blank

\* w consists of copies of 'A'
AllA(w) == \A i \in 1..Len(w) : w[i] = "A"

\* k blanks
Blanks(k) == [i \in 1..k |-> Blank]

\* a run() has returned that was called on the machine as load_tape left it:
\* no step() had stopped and none had performed a transition since the load
RunAfterLoad ==
  /\ loaded /\ last.op = "run" /\ pc = "idle"
  /\ last.before = Running
  /\ trace.moves = steps

\* the table with the single rule (q0,'A') -> (q0,'A',R)
CopyRight == [k \in {<<"q0", "A">>} |-> <<"q0", "A", "R">>]

\* the table with the single rule (q0,'_') -> (q0,'_',L)
LeftBlank == [k \in {<<"q0", Blank>>} |-> <<"q0", Blank, "L">>]

\* ------------------------------------------------------------------------
\* C11: if the transition table is empty, or the initial state is an accept
\* state (also when the table has rules for the initial state), then for
\* every input w without a blank, load_tape(w) followed by run() performs
\* exactly 0 transitions and returns exactly w.
\* ------------------------------------------------------------------------
C11_ImmediateHalt ==
  (/\ RunAfterLoad
   /\ BlankFree(trace.input)
   /\ (DOMAIN transitions = {} \/ initial_state \in accept_states)) =>
     /\ steps = 0
     /\ trace.moves = 0
     /\ last.result = trace.input
     /\ tape = trace.input \o <<Blank>>

\* run() has returned "A" after no transition on a machine whose initial
\* state is an accept state although the table has a rule for (q0, 'A')
C11_Witness ==
  /\ RunAfterLoad
  /\ initial_state \in accept_states
  /\ <<initial_state, "A">> \in DOMAIN transitions
  /\ trace.input = <<"A">>
  /\ max_steps > 0 /\ steps = 0
  /\ last.result = <<"A">>

\* ------------------------------------------------------------------------
\* C12: with the single rule (q0,'A') -> (q0,'A',R), no accept states and an
\* input of n copies of 'A' (n >= 0), the machine performs exactly n
\* transitions: a step() returns True while fewer than n were performed,
\* the (n+1)-th returns False with the head on the trailing blank at index
\* n, and get_tape_content() returns the input unchanged.
\* ------------------------------------------------------------------------
CopyScenario ==
  /\ loaded
  /\ transitions = CopyRight
  /\ accept_states = {}
  /\ AllA(trace.input)

C12_CopyRightScenario ==
  /\ [](CopyScenario =>
          /\ trace.moves <= Len(trace.input)
          /\ head_position = trace.moves
          /\ current_state = initial_state
          /\ tape = trace.input \o <<Blank>>
          /\ TapeContent(tape) = trace.input)
  /\ [][/\ (CopyScenario /\ StepInvoked) =>
             /\ last'.ret = (trace.moves < Len(trace.input))
             /\ (~last'.ret =>
                   /\ trace'.moves = Len(trace.input)
                   /\ head_position' = Len(trace.input)
                   /\ tape'[head_position' + 1] = Blank)
        /\ (CopyScenario /\ GetTapeContent) => last'.result = trace.input]_vars

\* after as many transitions as the input has symbols, one more step() has
\* returned False with the head on the trailing blank
C12_Witness ==
  /\ CopyScenario
  /\ Len(trace.input) = MaxInput
  /\ last.op = "step" /\ last.ret = FALSE /\ halt = "undefined"
  /\ trace.moves = Len(trace.input)
  /\ head_position = Len(trace.input)

\* ------------------------------------------------------------------------
\* The left-growth scenario: a machine built with the single rule
\* (q0,'_') -> (q0,'_',L) and any accept states, observed while its client
\* loads inputs of up to MaxInput + 1 symbols (so that a loaded tape can hold
\* a blank followed by a symbol) and calls step, run and get_tape_content.
\* ------------------------------------------------------------------------
LeftInputs == UNION {[1..n -> Symbols] : n \in 0..(MaxInput + 1)}

LeftInit == Init /\ transitions = LeftBlank

LeftNext ==
  \/ \E input_string \in LeftInputs : ObservedLoadTape(input_string)
  \/ ObservedStep
  \/ \E budget \in StepBudgets : ObservedRunCall(budget)
  \/ ObservedRunIterate
  \/ ObservedRunExit
  \/ ObservedGetTapeContent

LeftSpec == LeftInit /\ [][LeftNext]_vars

\* ------------------------------------------------------------------------
\* C13: with the single rule (q0,'_') -> (q0,'_',L) and the head at index 0
\* on a blank after load_tape, after k successful step() calls (k >= 0) the
\* tape is k cells longer than after load_tape, the k new cells are blanks
\* at the front, the head is 0, and the loaded symbols follow the k blanks
\* in their original order.
\* ------------------------------------------------------------------------
LeftScenario ==
  /\ loaded
  /\ transitions = LeftBlank
  /\ (trace.input = <<>> \/ trace.input[1] = Blank)

C13_LeftGrowthRepeated ==
  LeftScenario =>
     /\ Len(tape) = Len(trace.input) + 1 + trace.moves
     /\ tape = Blanks(trace.moves) \o trace.input \o <<Blank>>
     /\ head_position = 0
     /\ current_state = initial_state

\* "_A" was loaded and two step() calls have moved left from index 0: two
\* blanks are in front of the loaded '_', 'A' and the blank load_tape added
C13_Witness ==
  /\ LeftScenario
  /\ trace.input = <<Blank, "A">>
  /\ trace.moves = 2
  /\ last.op = "step" /\ last.ret = TRUE
  /\ head_position = 0
  /\ tape = <<Blank, Blank, Blank, "A", Blank>>

\* ------------------------------------------------------------------------
\* C14: a step() that finds a rule (next_state, write_symbol, direction) for
\* (current_state, symbol under the head) writes write_symbol into exactly
\* the cell that was under the head, changes no other cell, sets the current
\* state to next_state, moves the head by exactly one position (+1 for R,
\* -1 for L, before the repair at the left edge) and returns True.
\* ------------------------------------------------------------------------
\* a step() that will apply a rule
RuleFound ==
  /\ StepInvoked
  /\ current_state \notin accept_states
  /\ RuleDefined

\* the rule it applies
FoundRule == transitions[<<current_state, SymbolUnderHead>>]

\* the tape length once the cell under the head exists
PaddedLen == IF head_position >= Len(tape) THEN head_position + 1 ELSE Len(tape)

\* cell i (counted from 1) of the tape once the cell under the head exists
PaddedCell(i) == IF i <= Len(tape) THEN tape[i] ELSE Blank

\* the number of cells the repair at the left edge puts in front: one when
\* the move left started at index 0
FrontShift == IF head_position = 0 /\ FoundRule[3] = "L" THEN 1 ELSE 0

C14_RuleApplied ==
  [][RuleFound =>
       /\ last'.ret = TRUE
       /\ current_state' = FoundRule[1]
       /\ Len(tape') = PaddedLen + FrontShift
       /\ tape'[head_position + 1 + FrontShift] = FoundRule[2]
       /\ \A i \in 1..PaddedLen :
            i # head_position + 1 => tape'[i + FrontShift] = PaddedCell(i)
       /\ head_position' - FrontShift - head_position \in {1, -1}
       /\ (FoundRule[3] = "R" => head_position' - FrontShift = head_position + 1)
       /\ (FoundRule[3] = "L" => head_position' - FrontShift = head_position - 1)]_vars

\* a step() on a loaded tape ['_', '_'] has applied (q0,'_') -> (q1,'A',R):
\* cell 0 holds the written symbol, cell 1 is as it was, the head is at 1
C14_Witness ==
  /\ loaded /\ last.op = "step" /\ last.ret = TRUE
  /\ last.before = "first_cell"
  /\ <<"q0", Blank>> \in DOMAIN transitions
  /\ transitions[<<"q0", Blank>>] = <<"q1", "A", "R">>
  /\ tape = <<"A", Blank>>
  /\ head_position = 1
  /\ current_state = "q1"

\* ------------------------------------------------------------------------
\* C15: the accept check comes before any tape access: in an accept state
\* step() returns False and leaves the tape (its length too: no blank is
\* appended when the head is at or past the tape end), the head and the
\* current state unchanged, also when the table has a rule for
\* (current_state, symbol under the head).
\* ------------------------------------------------------------------------
C15_AcceptCheckFirst ==
  [][(StepInvoked /\ current_state \in accept_states) =>
       /\ last'.ret = FALSE
       /\ tape' = tape
       /\ Len(tape') = Len(tape)
       /\ head_position' = head_position
       /\ current_state' = current_state
       /\ fault' = FALSE]_vars

\* a step() was called in an accept state with the head at the tape end and
\* a rule for (current_state, '_') in the table: it returned False and the
\* head is still at the tape end
C15_Witness ==
  /\ last.op = "step" /\ last.ret = FALSE
  /\ last.before = "past_end"
  /\ current_state \in accept_states
  /\ RuleDefined
  /\ head_position = Len(tape)

\* ------------------------------------------------------------------------
\* C16: a step() that halts on an undefined transition leaves the current
\* state, the head and the value of get_tape_content() unchanged; the only
\* change to the raw tape is blanks appended at the right end so that the
\* head is inside the tape.
\* ------------------------------------------------------------------------
C16_UndefinedHaltFrame ==
  [][(StepInvoked /\ current_state \notin accept_states /\ ~RuleDefined) =>
       /\ last'.ret = FALSE
       /\ current_state' = current_state
       /\ head_position' = head_position
       /\ TapeContent(tape') = TapeContent(tape)
       /\ Len(tape') = PaddedLen
       /\ \A i \in 1..Len(tape') : tape'[i] = PaddedCell(i)
       /\ head_position' < Len(tape')]_vars

\* a step() on a loaded machine found the head at the tape end, appended
\* the blank and halted on the undefined transition
C16_Witness ==
  /\ loaded /\ last.op = "step" /\ last.ret = FALSE
  /\ last.before = "past_end"
  /\ halt = "undefined"
  /\ current_state \notin accept_states
  /\ Len(tape) = head_position + 1
  /\ tape[Len(tape)] = Blank

\* ------------------------------------------------------------------------
\* C17: in every configuration after load_tape, between any two operations
\* and between the steps of a run, 0 <= head <= length(tape); until the next
\* load_tape the tape length never decreases, and a single step() makes the
\* tape at most one cell longer.
\* ------------------------------------------------------------------------
C17_HeadAndLength ==
  /\ [](loaded => (0 <= head_position /\ head_position <= Len(tape)))
  /\ [][(loaded /\ last'.op # "load_tape") =>
          /\ Len(tape') >= Len(tape)
          /\ (StepInvoked => Len(tape') <= Len(tape) + 1)]_vars

\* inside a run on a loaded machine, after two transitions, the head is at
\* the end of a tape that has grown to MaxTape cells
C17_Witness ==
  /\ loaded /\ pc = "run" /\ steps = 2
  /\ head_position = Len(tape)
  /\ Len(tape) = MaxTape
  /\ last.before = Running

\* ------------------------------------------------------------------------
\* C18: run does not reset the machine: for all a, b >= 0, run(a) followed
\* by run(b) with no load_tape in between leaves the machine in the same
\* configuration (tape, head, state), and returns from the second call the
\* same string, as a single run(a + b) from the configuration in which
\* run(a) was called.
\* ------------------------------------------------------------------------
C18_RunComposes ==
  (pc = "idle" /\ last.op = "run" /\ chain.runs = 2) =>
     LET single == RunLoop(chain.start, 0, chain.total)
     IN /\ tape = single.m.tape
        /\ head_position = single.m.head_position
        /\ current_state = single.m.current_state
        /\ last.result = RunResult(single.m.tape)

\* a second run() has returned: the first had used up a budget > 0, the
\* second performed transitions too, and together they changed the tape
C18_Witness ==
  /\ pc = "idle" /\ last.op = "run" /\ chain.runs = 2
  /\ last.before = "budget"
  /\ chain.total > max_steps
  /\ steps > 0
  /\ tape # chain.start.tape

\* ------------------------------------------------------------------------
\* C19: for every message and every integer shift (0, 26, above 26 and
\* negative ones too) caesar_decrypt(caesar_encrypt(message, shift), shift)
\* is the message; characters outside A-Z (space, lowercase, digit,
\* punctuation) are left unchanged by both functions, and the A-Z letter at
\* index p becomes the letter at index (p + shift) mod 26 on encryption.
\* ------------------------------------------------------------------------
\* the A-Z letters, by their index
UpperCase == {alphabet[p + 1] : p \in 0..25}

\* r is x mod 26: the one number of 0..25 that differs from x by a multiple
\* of 26
IsMod26(r, x) == r \in 0..25 /\ \E k \in (-MaxShift)..MaxShift : x = 26 * k + r

C19_CaesarRoundTrip ==
  /\ cipher.done \in {"encrypt", "decrypt"} =>
       /\ Len(cipher.encrypted) = Len(cipher.message)
       /\ \A i \in 1..Len(cipher.message) :
            IF cipher.message[i] \in UpperCase
            THEN \E p, r \in 0..25 :
                   /\ alphabet[p + 1] = cipher.message[i]
                   /\ alphabet[r + 1] = cipher.encrypted[i]
                   /\ IsMod26(r, p + cipher.shift)
            ELSE cipher.encrypted[i] = cipher.message[i]
  /\ cipher.done = "decrypt" =>
       /\ cipher.decrypted = cipher.message
       /\ \A i \in 1..Len(cipher.encrypted) :
            cipher.encrypted[i] \notin UpperCase =>
               cipher.decrypted[i] = cipher.encrypted[i]

\* "Z!" was encrypted with a shift above 26 into a different string, in
\* which '!' is in place, and decrypted back
C19_Witness ==
  /\ cipher.done = "decrypt"
  /\ cipher.shift > 26
  /\ cipher.message = <<"Z", "!">>
  /\ cipher.encrypted # cipher.message
  /\ cipher.encrypted[2] = "!"
  /\ cipher.decrypted = cipher.message

====
